---- MODULE Spec2Model ----
(***************************************************************************)
(* Model of jotnar (src/index.js): a schema layer over a LokiJS database.  *)
(* JavaScript values are tagged records; strings are sequences of          *)
(* one-character strings so that Number(), parseInt(), parseFloat() and    *)
(* toString() are computed, not assumed.  Finite numbers are fixed-point   *)
(* integers counted in units of 1/Scale; -0 is identified with 0 and NaN   *)
(* is one value.                                                           *)
(***************************************************************************)
EXTENDS Integers, Sequences, FiniteSets, TLC

\* ------------------------------------------------------------------ bounds
MaxStrLen == 3
MaxApply == 2
MaxDocs == 2

\* ------------------------------------------------------- JavaScript values
RECURSIVE Pow10(_)
Pow10(n) == IF n = 0 THEN 1 ELSE 10 * Pow10(n - 1)

Scale == Pow10(MaxStrLen)

Null == [t |-> "null"]
Undefined == [t |-> "undefined"]
NaN == [t |-> "NaN"]
Bool(b) == [t |-> "boolean", b |-> b]
Num(k) == [t |-> "number", n |-> k]
IntNum(i) == Num(i * Scale)
Str(s) == [t |-> "string", s |-> s]
DateOf(ms) == [t |-> "date", ms |-> ms]
InvalidDate == [t |-> "invalid-date"]
MetaObj == [t |-> "object", id |-> "meta"]

True == Bool(TRUE)
False == Bool(FALSE)

\* value == null   (loose equality with null: null or undefined)
IsNullish(v) == v.t \in {"null", "undefined"}

\* ToBoolean
Truthy(v) ==
    CASE v.t \in {"null", "undefined", "NaN"} -> FALSE
      [] v.t = "boolean" -> v.b
      [] v.t = "number" -> v.n # 0
      [] v.t = "string" -> v.s # <<>>
      [] OTHER -> TRUE

\* ------------------------------------------------------------ characters
DigitChars == <<"0", "1", "2", "3", "4", "5", "6", "7", "8", "9">>
Digits == {DigitChars[i] : i \in 1..10}
DigitVal(c) == (CHOOSE i \in 1..10 : DigitChars[i] = c) - 1
WhiteSpace == {" "}

RECURSIVE DigitsValue(_)
DigitsValue(s) ==
    IF s = <<>> THEN 0
    ELSE DigitsValue(SubSeq(s, 1, Len(s) - 1)) * 10 + DigitVal(s[Len(s)])

RECURSIVE LeadingDigits(_)
LeadingDigits(s) ==
    IF s = <<>> \/ s[1] \notin Digits THEN <<>>
    ELSE <<s[1]>> \o LeadingDigits(Tail(s))

RECURSIVE TrimLeft(_)
TrimLeft(s) == IF s # <<>> /\ s[1] \in WhiteSpace THEN TrimLeft(Tail(s)) ELSE s

RECURSIVE TrimRight(_)
TrimRight(s) ==
    IF s # <<>> /\ s[Len(s)] \in WhiteSpace
    THEN TrimRight(SubSeq(s, 1, Len(s) - 1)) ELSE s

Drop(s, k) == SubSeq(s, k + 1, Len(s))

\* value of the fraction digits f, in units of 1/Scale (digits beyond the
\* resolution are cut off; the inputs never carry more than MaxStrLen of them)
FracValue(f) ==
    LET g == IF Len(f) > MaxStrLen THEN SubSeq(f, 1, MaxStrLen) ELSE f
    IN  DigitsValue(g) * Pow10(MaxStrLen - Len(g))

HasSign(s) == s # <<>> /\ s[1] \in {"-", "+"}
SignOf(s) == IF s # <<>> /\ s[1] = "-" THEN -1 ELSE 1
Unsigned(s) == IF HasSign(s) THEN Tail(s) ELSE s

\* ------------------------------------------------- Number(), String(), ...
\* StringToNumber: trimmed; empty is 0; [sign] digits [. digits] | [sign] . digits
StringToNumber(s) ==
    LET u == TrimRight(TrimLeft(s))
        body == Unsigned(u)
        ip == LeadingDigits(body)
        rest == Drop(body, Len(ip))
        hasDot == rest # <<>> /\ rest[1] = "."
        fp == IF hasDot THEN LeadingDigits(Tail(rest)) ELSE <<>>
        tail == IF hasDot THEN Drop(rest, 1 + Len(fp)) ELSE rest
    IN  IF u = <<>> THEN Num(0)
        ELSE IF tail # <<>> \/ (ip = <<>> /\ fp = <<>>) THEN NaN
        ELSE Num(SignOf(u) * (DigitsValue(ip) * Scale + FracValue(fp)))

\* Number(value)
ToNumber(v) ==
    CASE v.t = "null" -> Num(0)
      [] v.t = "boolean" -> IF v.b THEN IntNum(1) ELSE IntNum(0)
      [] v.t = "number" -> v
      [] v.t = "string" -> StringToNumber(v.s)
      [] v.t = "date" -> IntNum(v.ms)
      [] OTHER -> NaN

RECURSIVE NatToDigits(_)
NatToDigits(n) ==
    IF n < 10 THEN <<DigitChars[n + 1]>>
    ELSE NatToDigits(n \div 10) \o <<DigitChars[(n % 10) + 1]>>

RECURSIVE PadLeft(_, _)
PadLeft(s, w) == IF Len(s) >= w THEN s ELSE PadLeft(<<"0">> \o s, w)

RECURSIVE StripZeros(_)
StripZeros(s) ==
    IF s # <<>> /\ s[Len(s)] = "0" THEN StripZeros(SubSeq(s, 1, Len(s) - 1)) ELSE s

\* Number::toString for the magnitudes that print in decimal notation
NumberToString(v) ==
    IF v.t = "NaN" THEN <<"N", "a", "N">>
    ELSE LET k == IF v.n < 0 THEN -v.n ELSE v.n
             ip == k \div Scale
             fp == k % Scale
             frac == IF fp = 0 THEN <<>>
                     ELSE <<".">> \o StripZeros(PadLeft(NatToDigits(fp), MaxStrLen))
         IN  (IF v.n < 0 THEN <<"-">> ELSE <<>>) \o NatToDigits(ip) \o frac

\* parseInt(string), radix 10
ParseIntStr(s) ==
    LET u == TrimLeft(s)
        ip == LeadingDigits(Unsigned(u))
    IN  IF ip = <<>> THEN NaN ELSE Num(SignOf(u) * DigitsValue(ip) * Scale)

\* parseFloat(string): the longest prefix that is a decimal literal
ParseFloatStr(s) ==
    LET u == TrimLeft(s)
        body == Unsigned(u)
        ip == LeadingDigits(body)
        rest == Drop(body, Len(ip))
        fp == IF rest # <<>> /\ rest[1] = "." THEN LeadingDigits(Tail(rest)) ELSE <<>>
    IN  IF ip = <<>> /\ fp = <<>> THEN NaN
        ELSE Num(SignOf(u) * (DigitsValue(ip) * Scale + FracValue(fp)))

\* Date.prototype.toISOString for the first second of the epoch
ToISOString(ms) ==
    <<"1", "9", "7", "0", "-", "0", "1", "-", "0", "1", "T",
      "0", "0", ":", "0", "0", ":", "0", "0", ".">>
      \o PadLeft(NatToDigits(ms), 3) \o <<"Z">>

\* value.toString() of a primitive
ToStringValue(v) ==
    CASE v.t = "string" -> v.s
      [] v.t = "boolean" -> IF v.b THEN <<"t", "r", "u", "e">> ELSE <<"f", "a", "l", "s", "e">>
      [] v.t \in {"number", "NaN"} -> NumberToString(v)
      [] OTHER -> <<"[", "o", "b", "j", "e", "c", "t", "]">>

\* new Date(value) for a non-string value
NewDate(v) ==
    CASE v.t = "number" -> DateOf(IF v.n < 0 THEN -((-v.n) \div Scale) ELSE v.n \div Scale)
      [] v.t = "boolean" -> DateOf(IF v.b THEN 1 ELSE 0)
      [] v.t = "date" -> v
      [] OTHER -> InvalidDate

\* --------------------------------------------------------------- _types
TypeNames == {"ANY", "INTEGER", "FLOAT", "STRING", "BOOLEAN", "DATE"}

T_ANY(value) == value

T_INTEGER(value) ==
    IF IsNullish(value) THEN Null ELSE ParseIntStr(NumberToString(ToNumber(value)))

T_FLOAT(value) ==
    IF IsNullish(value) THEN Null ELSE ParseFloatStr(NumberToString(ToNumber(value)))

\* STRING written with JSON.stringify instead of toString(): strings get quoted
T_STRING_Stringify(value) ==
    IF IsNullish(value) THEN Null
    ELSE IF value.t = "string" THEN Str(<<"\"">> \o value.s \o <<"\"">>)
    ELSE Str(ToStringValue(value))

T_STRING(value) == IF IsNullish(value) THEN Null ELSE Str(ToStringValue(value))

T_BOOLEAN(value) == IF IsNullish(value) THEN Null ELSE Bool(Truthy(value))

T_DATE(value) ==
    IF IsNullish(value) THEN Null
    ELSE IF value.t \in {"date", "invalid-date"} THEN value ELSE NewDate(value)

Coerce(type, value) ==
    CASE type = "ANY" -> T_ANY(value)
      [] type = "INTEGER" -> T_INTEGER(value)
      [] type = "FLOAT" -> T_FLOAT(value)
      [] type = "STRING" -> T_STRING(value)
      [] type = "BOOLEAN" -> T_BOOLEAN(value)
      [] type = "DATE" -> T_DATE(value)

\* ------------------------------------------------------------ input sets
Alphabet == {"1", "5", ".", "-", " ", "a"}
Strings == UNION {[1..n -> Alphabet] : n \in 0..MaxStrLen}
Numbers == {IntNum(0), IntNum(1), IntNum(30), Num(-(Scale \div 2)), Num(3 * (Scale \div 2)), Num(-3 * (Scale \div 2))}
Primitives == {Null, Undefined, NaN, True, False} \cup Numbers \cup {Str(s) : s \in Strings}
Dates == {DateOf(0), DateOf(1)}

\* --------------------------------------------------- objects and documents
\* obj[key] on a plain object: undefined when the key is missing
Get(obj, key) == IF key \in DOMAIN obj THEN obj[key] ELSE Undefined

EmptyObject == [k \in {} |-> Undefined]

\* JSON.parse(JSON.stringify(value)) of one property value; "omit" = key dropped
JSONValue(v) ==
    CASE v.t \in {"NaN", "invalid-date"} -> Null
      [] v.t = "date" -> Str(ToISOString(v.ms))
      [] OTHER -> v

\* JSON.parse(JSON.stringify(obj)): undefined-valued keys are dropped
JSONClone(obj) ==
    [p \in {q \in DOMAIN obj : obj[q].t # "undefined"} |-> JSONValue(obj[p])]

\* ------------------------------------------------------------ error kinds
NoError == "none"
RedefinitionError == "Redefinition of model"
ReservedFieldError == "Declaration of reserved property not allowed"
NotNullConstraintError == "Not null constraint failed"
StoreError == "store error"

\* ------------------------------------------------------------ input sets
Names == {"users"}

FnDecl(type) == [k |-> "function", type |-> type]
ObjDecl(fields) == [k |-> "object", fields |-> fields]
Entry(prop, decl) == [prop |-> prop, decl |-> decl]

\* declarations: ordered property name -> raw declaration
DeclAge ==
    <<Entry("age", ObjDecl([type |-> "INTEGER", allowNull |-> False]))>>
DeclAgeTag ==
    <<Entry("age", ObjDecl([type |-> "INTEGER", allowNull |-> False,
                            defaultValue |-> IntNum(5), unique |-> True])),
      Entry("tag", FnDecl("STRING"))>>
DeclTagDate ==
    <<Entry("age", FnDecl("FLOAT")),
      Entry("tag", ObjDecl([defaultValue |-> DateOf(0), allowNull |-> False,
                            unique |-> True]))>>
DeclMeta ==
    <<Entry("age", FnDecl("INTEGER")), Entry("meta", FnDecl("ANY"))>>
DeclLoki ==
    <<Entry("$loki", ObjDecl([type |-> "INTEGER", unique |-> True])),
      Entry("age", FnDecl("INTEGER"))>>
Definitions == {DeclAge, DeclAgeTag, DeclTagDate, DeclMeta, DeclLoki}

\* options: omitted, false, true, a configuration object
OptionsValues ==
    {Undefined, False, True, [t |-> "object", o |-> [allowExtraProperties |-> True]]}

AgeValues == {Null, Str(<<"3", "0">>), Str(<<"a">>)}
ExtraValues == {Str(<<"x">>)}

FieldValues ==
    ("age" :> AgeValues) @@ ("extra" :> ExtraValues)
      @@ ("meta" :> {MetaObj}) @@ ("$loki" :> {IntNum(1)})

\* the plain objects whose keys are among ks, each value drawn from its field's set
DocsOver(ks) ==
    UNION {{d \in [s -> UNION {FieldValues[k] : k \in s}] :
              \A k \in s : d[k] \in FieldValues[k]} : s \in SUBSET ks}

\* documents as a caller writes them, and as read back from the store
RawDocs == {d \in DocsOver({"age", "extra"}) : Get(d, "age") # Str(<<"a">>)}
             \cup {[age |-> Undefined]}
StoredDocs == {d \in DocsOver({"age", "meta", "$loki"}) :
                 {"meta", "$loki"} \subseteq DOMAIN d}
BatchDocs == {d \in RawDocs : "extra" \notin DOMAIN d /\ d # [age |-> Undefined]}

\* the argument of insert/update: one object, or an array of objects
Single(d) == [array |-> FALSE, docs |-> <<d>>]
Array(ds) == [array |-> TRUE, docs |-> ds]
InsertArgs ==
    {Single(d) : d \in RawDocs}
      \cup {Array(ds) : ds \in UNION {[1..n -> BatchDocs] : n \in 0..MaxDocs}}
UpdateArgs ==
    {Single(d) : d \in StoredDocs \cup {[age |-> Str(<<"3", "0">>)]}}
      \cup {Array(<<d>>) : d \in StoredDocs}

\* ------------------------------------------------------------------ state
\* models:      this.models, model name -> model record (Undefined when absent)
\* collections: the store's collections by name (Undefined when absent)
\* last:        the most recent call: operation, arguments, the error it threw,
\*              and the calls it made to the store's original primitives
VARIABLES models, collections, last, ctype, cval, cprev, capplied

vars == <<models, collections, last, ctype, cval, cprev, capplied>>
cvars == <<ctype, cval, cprev, capplied>>
dbvars == <<models, collections, last>>

OriginalInsert == "Collection.prototype.insert"
OriginalUpdate == "Collection.prototype.update"
JotnarInsert == "jotnar.insert"
JotnarUpdate == "jotnar.update"

NoCall == [op |-> "none", name |-> "", arg |-> <<>>, error |-> NoError, calls |-> <<>>]

\* a reference to the store's collection of that name
CollectionRef(name) == [t |-> "collection", name |-> name]

\* constructor: super(filename, options); this.models = {}
DbInit ==
    /\ models = [n \in Names |-> Undefined]
    /\ collections = [n \in Names |-> Undefined]
    /\ last = NoCall

\* ---------------------------------------------------------------- store
\* options.unique as the collection constructor reads it
OptionUnique(options) == IF "unique" \in DOMAIN options THEN options.unique ELSE <<>>

\* Loki.prototype.addCollection: an existing collection is returned as it is
NewCollection(name, options) ==
    [name |-> name, options |-> options, uniqueNames |-> OptionUnique(options),
     data |-> <<>>, maxId |-> 0,
     insert |-> OriginalInsert, update |-> OriginalUpdate,
     _insert |-> "undefined", _update |-> "undefined"]

AddCollectionTo(colls, name, options) ==
    IF colls[name] # Undefined THEN colls
    ELSE [colls EXCEPT ![name] = NewCollection(name, options)]

\* Loki.prototype.getCollection: null when there is no such collection
GetCollection(colls, name) == IF colls[name] = Undefined THEN Null ELSE colls[name]

\* the store's original insert of a list: documents are added one by one, each
\* given the next $loki and a meta; a document that carries a $loki is refused
RECURSIVE RawInsert(_, _)
RawInsert(coll, list) ==
    IF list = <<>> THEN [coll |-> coll, error |-> NoError]
    ELSE LET doc == Head(list)
         IN  IF Get(doc, "$loki") # Undefined
             THEN [coll |-> coll, error |-> StoreError]
             ELSE LET id == coll.maxId + 1
                      stored == [p \in DOMAIN doc \cup {"meta", "$loki"} |->
                                   IF p = "$loki" THEN IntNum(id)
                                   ELSE IF p = "meta" /\ Get(doc, "meta") = Undefined
                                        THEN MetaObj
                                   ELSE doc[p]]
                  IN  RawInsert([coll EXCEPT !.data = Append(@, stored), !.maxId = id],
                                Tail(list))

\* the store's original update of one document: the stored document with the
\* same $loki is replaced; a document the store does not hold is refused
RawUpdateOne(coll, doc) ==
    LET hits == {i \in 1..Len(coll.data) : coll.data[i]["$loki"] = Get(doc, "$loki")}
    IN  IF hits = {} THEN [coll |-> coll, error |-> StoreError]
        ELSE [coll |-> [coll EXCEPT !.data[CHOOSE i \in hits : TRUE] = doc],
              error |-> NoError]

\* db.addCollection(name, options) called directly on the database
addCollection(name, options) ==
    /\ collections' = AddCollectionTo(collections, name, options)
    /\ last' = [op |-> "addCollection", name |-> name, arg |-> options,
                error |-> NoError, calls |-> <<>>]
    /\ UNCHANGED <<models, cvars>>

\* --------------------------------------------------------------- define
\* lines 67-68: the options object the rest of define works with
NormalizeOptions(options) ==
    IF ~Truthy(options) THEN EmptyObject
    ELSE IF options = True THEN [allowExtraProperties |-> True]
    ELSE options.o

\* definition[prop], undefined when the declaration has no such property
Declared(definition, prop) ==
    IF \E i \in 1..Len(definition) : definition[i].prop = prop
    THEN [t |-> "declaration"] ELSE Undefined

\* lines 73-79: the entry put into this.models
BlankModel(options) ==
    [_collection |-> Null, _unique |-> <<>>, _scheme |-> EmptyObject,
     _defaultObject |-> EmptyObject,
     _nonStrict |-> Get(options, "allowExtraProperties")]

\* lines 85-98: one iteration of the loop over the declaration
CompileProp(m, prop, decl) ==
    IF decl.k = "object"
    THEN [m EXCEPT
            !._unique = IF Truthy(Get(decl.fields, "unique")) THEN Append(@, prop) ELSE @,
            !._scheme = (prop :> [parse |-> IF "type" \in DOMAIN decl.fields
                                            THEN decl.fields.type ELSE "ANY",
                                  notNull |-> Get(decl.fields, "allowNull") = False]) @@ @,
            !._defaultObject = (prop :> IF Get(decl.fields, "defaultValue") = Undefined
                                        THEN Null ELSE decl.fields.defaultValue) @@ @]
    ELSE [m EXCEPT
            !._scheme = (prop :> [parse |-> decl.type, notNull |-> FALSE]) @@ @,
            !._defaultObject = (prop :> Null) @@ @]

\* lines 84-99
RECURSIVE CompileProps(_, _)
CompileProps(m, definition) ==
    IF definition = <<>> THEN m
    ELSE CompileProps(CompileProp(m, Head(definition).prop, Head(definition).decl),
                      Tail(definition))

\* the check written against the literal key 'name' (this.models.name)
AlreadyDefined_LiteralKey(name) == "name" \in Names /\ models["name"] # Undefined

\* line 70
AlreadyDefined(name) == models[name] # Undefined

\* only the first of the two reserved names is checked
ReservedDeclared_MetaOnly(definition) == Truthy(Declared(definition, "meta"))

\* lines 81-82
ReservedDeclared(definition) ==
    Truthy(Declared(definition, "meta")) \/ Truthy(Declared(definition, "$loki"))

\* without line 106: uniqueNames are left to the options of addCollection
BindCollection_NoUniqueNames(colls, name, unique, options) ==
    LET found == GetCollection(colls, name)
        colls1 == IF found = Null
                  THEN AddCollectionTo(colls, name, ("unique" :> unique) @@ options)
                  ELSE colls
        c == colls1[name]
    IN  [colls1 EXCEPT ![name] =
            [c EXCEPT !._insert = c.insert, !._update = c.update,
                      !.insert = JotnarInsert, !.update = JotnarUpdate]]

\* lines 101-109, 137, 167: get or create the collection, set uniqueNames on
\* it, keep the original primitives and bind the interceptors
BindCollection(colls, name, unique, options) ==
    LET found == GetCollection(colls, name)
        colls1 == IF found = Null
                  THEN AddCollectionTo(colls, name, ("unique" :> unique) @@ options)
                  ELSE colls
        c == colls1[name]
    IN  [colls1 EXCEPT ![name] =
            [c EXCEPT !.uniqueNames = unique,
                      !._insert = c.insert, !._update = c.update,
                      !.insert = JotnarInsert, !.update = JotnarUpdate]]

DefineOutcome(name, definition, options) ==
    LET opts == NormalizeOptions(options)
        compiled == CompileProps(BlankModel(opts), definition)
    IN  IF AlreadyDefined(name)
        THEN [error |-> RedefinitionError, models |-> models, colls |-> collections]
        ELSE IF ReservedDeclared(definition)
        THEN [error |-> ReservedFieldError,
              models |-> [models EXCEPT ![name] = BlankModel(opts)],
              colls |-> collections]
        ELSE [error |-> NoError,
              models |-> [models EXCEPT ![name] = [compiled EXCEPT !._collection = CollectionRef(name)]],
              colls |-> BindCollection(collections, name, compiled._unique, opts)]

define(name, definition, options) ==
    LET r == DefineOutcome(name, definition, options)
    IN  /\ models' = r.models
        /\ collections' = r.colls
        /\ last' = [op |-> "define", name |-> name,
                    arg |-> [definition |-> definition, options |-> options],
                    error |-> r.error, calls |-> <<>>]
        /\ UNCHANGED cvars

\* ------------------------------------------------------ insert and update
\* lines 120-126 and 149-155: for (let prop in obj) on top of a start object
AssignProps(m, start, obj) ==
    LET kept == {p \in DOMAIN obj : p \in DOMAIN m._scheme \/ Truthy(m._nonStrict)}
    IN  [p \in DOMAIN start \cup kept |->
            IF p \in kept
            THEN IF p \in DOMAIN m._scheme THEN Coerce(m._scheme[p].parse, obj[p])
                 ELSE obj[p]
            ELSE start[p]]

\* the check written with === null: an undefined property passes
NotNullViolated_StrictNull(m, doc) ==
    \E prop \in DOMAIN m._defaultObject :
        Get(doc, prop) = Null /\ m._scheme[prop].notNull

\* lines 127-132 and 156-161
NotNullViolated(m, doc) ==
    \E prop \in DOMAIN m._defaultObject :
        IsNullish(Get(doc, prop)) /\ m._scheme[prop].notNull

\* line 119
DefaultCopy(m) == JSONClone(m._defaultObject)

\* the loop with continue in place of throw: invalid documents are left out
RECURSIVE InsertLoop_SkipInvalid(_, _, _)
InsertLoop_SkipInvalid(m, objects, listToInsert) ==
    IF objects = <<>> THEN [error |-> NoError, list |-> listToInsert]
    ELSE LET toInsert == AssignProps(m, DefaultCopy(m), Head(objects))
         IN  IF NotNullViolated(m, toInsert)
             THEN InsertLoop_SkipInvalid(m, Tail(objects), listToInsert)
             ELSE InsertLoop_SkipInvalid(m, Tail(objects), Append(listToInsert, toInsert))

\* lines 118-134: the loop over the documents of the call
RECURSIVE InsertLoop(_, _, _)
InsertLoop(m, objects, listToInsert) ==
    IF objects = <<>> THEN [error |-> NoError, list |-> listToInsert]
    ELSE LET toInsert == AssignProps(m, DefaultCopy(m), Head(objects))
         IN  IF NotNullViolated(m, toInsert)
             THEN [error |-> NotNullConstraintError, list |-> listToInsert]
             ELSE InsertLoop(m, Tail(objects), Append(listToInsert, toInsert))

Call(prim, arg) == [prim |-> prim, arg |-> arg]

\* lines 115-136
InsertOutcome(name, object) ==
    LET r == InsertLoop(models[name], object.docs, <<>>)
        s == RawInsert(collections[name], r.list)
    IN  IF r.error # NoError
        THEN [error |-> r.error, calls |-> <<>>, coll |-> collections[name]]
        ELSE [error |-> s.error, calls |-> <<Call("_insert", r.list)>>, coll |-> s.coll]

insert(name, object) ==
    /\ collections[name] # Undefined
    /\ collections[name].insert = JotnarInsert
    /\ Len(collections[name].data) + Len(object.docs) <= MaxDocs
    /\ LET r == InsertOutcome(name, object)
       IN  /\ collections' = [collections EXCEPT ![name] = r.coll]
           /\ last' = [op |-> "insert", name |-> name, arg |-> object,
                       error |-> r.error, calls |-> r.calls]
    /\ UNCHANGED <<models, cvars>>

\* line 165: this._update(toUpdate), the original update of one document
ForwardUpdate(coll, toUpdate) ==
    LET s == RawUpdateOne(coll, toUpdate)
    IN  [error |-> s.error, calls |-> <<Call("_update", Single(toUpdate))>>,
         coll |-> s.coll]

\* lines 148-165 on the collection as it stands: a single document
SingleUpdateOn(m, coll, raw) ==
    LET checked == AssignProps(m, EmptyObject, raw)
    IN  IF NotNullViolated(m, checked)
        THEN [error |-> NotNullConstraintError, calls |-> <<>>, coll |-> coll]
        ELSE ForwardUpdate(coll, ("meta" :> Get(raw, "meta"))
                                   @@ ("$loki" :> Get(raw, "$loki")) @@ checked)

\* the store's original update of an array, elements replaced inside the store
RECURSIVE RawUpdateAll(_, _)
RawUpdateAll(coll, list) ==
    IF list = <<>> THEN [coll |-> coll, error |-> NoError, calls |-> <<>>]
    ELSE LET r == RawUpdateOne(coll, Head(list))
         IN  IF r.error # NoError THEN [coll |-> r.coll, error |-> r.error, calls |-> <<>>]
             ELSE RawUpdateAll(r.coll, Tail(list))

\* the store's original update of an array, written as a loop of
\* this.update(doc[k]): each element goes through the collection's update,
\* which line 167 has replaced; an error stops the loop where it is
RECURSIVE RawUpdateEach(_, _, _, _)
RECURSIVE RawUpdateRest(_, _, _, _)
RawUpdateRest(m, r, rest, calls) ==
    IF r.error # NoError THEN [r EXCEPT !.calls = calls \o @]
    ELSE RawUpdateEach(m, r.coll, rest, calls \o r.calls)

RawUpdateEach(m, coll, list, calls) ==
    IF list = <<>> THEN [coll |-> coll, error |-> NoError, calls |-> calls]
    ELSE RawUpdateRest(m, SingleUpdateOn(m, coll, Head(list)), Tail(list), calls)

\* the store's original update called with an array; the store is not part of
\* the repository, and both ways of walking the array are allowed for
RawUpdateArray(m, coll, list, reenters) ==
    IF reenters THEN RawUpdateEach(m, coll, list, <<>>) ELSE RawUpdateAll(coll, list)

\* the array branch made to validate every element before the forward
BulkUpdate_Validated(name, object, reenters) ==
    LET m == models[name]
    IN  IF \E i \in 1..Len(object.docs) :
               NotNullViolated(m, AssignProps(m, EmptyObject, object.docs[i]))
        THEN [error |-> NotNullConstraintError, calls |-> <<>>, coll |-> collections[name]]
        ELSE [RawUpdateArray(m, collections[name], object.docs, reenters)
                EXCEPT !.calls = <<Call("_update", object)>> \o @]

\* lines 144-146
BulkUpdate(name, object, reenters) ==
    [RawUpdateArray(models[name], collections[name], object.docs, reenters)
       EXCEPT !.calls = <<Call("_update", object)>> \o @]

\* lines 148-165
SingleUpdate(name, object) ==
    SingleUpdateOn(models[name], collections[name], object.docs[1])

\* lines 143-166
UpdateOutcome(name, object, reenters) ==
    IF object.array THEN BulkUpdate(name, object, reenters) ELSE SingleUpdate(name, object)

update(name, object, reenters) ==
    /\ collections[name] # Undefined
    /\ collections[name].update = JotnarUpdate
    /\ LET r == UpdateOutcome(name, object, reenters)
       IN  /\ collections' = [collections EXCEPT ![name] = r.coll]
           /\ last' = [op |-> "update", name |-> name, arg |-> object,
                       error |-> r.error, calls |-> r.calls]
    /\ UNCHANGED <<models, cvars>>

\* lines 177-179
getModel(name) ==
    IF models[name] # Undefined THEN models[name]._collection ELSE Null

\* ---------------------------------------------------------- specifications
CollectionOptions == {EmptyObject, [unique |-> <<"tag">>]}

CoerceIdle ==
    /\ ctype = "ANY"
    /\ cval = Null
    /\ cprev = Null
    /\ capplied = 0

Init == DbInit /\ CoerceIdle

CallAddCollection == \E n \in Names, o \in CollectionOptions : addCollection(n, o)
CallDefine == \E n \in Names, d \in Definitions, o \in OptionsValues : define(n, d, o)
CallInsert == \E n \in Names, a \in InsertArgs : insert(n, a)
CallUpdate == \E n \in Names, a \in UpdateArgs, r \in BOOLEAN : update(n, a, r)
CallUpdateSingle == \E n \in Names, a \in {u \in UpdateArgs : ~u.array} : update(n, a, FALSE)

Next == CallAddCollection \/ CallDefine \/ CallInsert \/ CallUpdate

Spec == Init /\ [][Next]_vars

\* histories of define, insert and single-document update only
NextWrites == CallDefine \/ CallInsert \/ CallUpdateSingle

SpecWrites == Init /\ [][NextWrites]_vars

CoerceInit ==
    /\ DbInit
    /\ ctype \in TypeNames
    /\ cval \in (IF ctype = "DATE" THEN (Primitives \ {Str(s) : s \in Strings}) \cup Dates
                 ELSE Primitives)
    /\ cprev = cval
    /\ capplied = 0

\* one application of the property's coercion to the current value
ApplyCoercion ==
    /\ capplied < MaxApply
    /\ cprev' = cval
    /\ cval' = Coerce(ctype, cval)
    /\ capplied' = capplied + 1
    /\ UNCHANGED <<ctype, dbvars>>

CoerceSpec == CoerceInit /\ [][ApplyCoercion]_vars

\* ------------------------------------------------------------- properties
\* a define call for this name has completed: the interceptors are bound
Succeeded(n) == collections[n] # Undefined /\ collections[n].insert = JotnarInsert

\* what the insert interceptor makes of one raw document
InsertDoc(m, raw) == AssignProps(m, DefaultCopy(m), raw)
InsertFails(m, raw) == NotNullViolated(m, InsertDoc(m, raw))

\* the declaration names a reserved field
ReservedIn(definition) ==
    \E i \in 1..Len(definition) : definition[i].prop \in {"meta", "$loki"}

\* the declared properties with unique: true
UniqueIn(definition) ==
    {definition[i].prop : i \in {j \in 1..Len(definition) :
        /\ definition[j].decl.k = "object"
        /\ Get(definition[j].decl.fields, "unique") = True}}

\* the model was declared with allowExtraProperties true, or options === true
DeclaredNonStrict(options) ==
    \/ options = True
    \/ options.t = "object" /\ Get(options.o, "allowExtraProperties") = True

\* C1: a batch insert is all-or-nothing.  If any document of the call fails the
\* not-null validation the call throws NotNullConstraintError, the original
\* insert is not called and the collections are what they were; otherwise the
\* original insert is called exactly once, with the whole normalized batch.
C1_BatchAllOrNothing ==
    [][last'.op = "insert" =>
        LET m == models[last'.name]
            docs == last'.arg.docs
        IN  IF \E i \in 1..Len(docs) : InsertFails(m, docs[i])
            THEN /\ last'.error = NotNullConstraintError
                 /\ last'.calls = <<>>
                 /\ collections' = collections
            ELSE last'.calls =
                   <<Call("_insert", [i \in 1..Len(docs) |-> InsertDoc(m, docs[i])])>>
      ]_vars

\* a batch of two whose first document validated and whose second did not
C1_Witness ==
    /\ last.op = "insert"
    /\ last.arg.array
    /\ Len(last.arg.docs) = 2
    /\ ~InsertFails(models[last.name], last.arg.docs[1])
    /\ InsertFails(models[last.name], last.arg.docs[2])
    /\ last.error = NotNullConstraintError

\* the document the claim expects insert to hand to the store: the default
\* template with the declared raw keys coerced and, for a non-strict model,
\* the undeclared raw keys copied
TemplateDoc(m, raw, nonStrict) ==
    LET declared == DOMAIN m._scheme
        extras == IF nonStrict THEN DOMAIN raw \ declared ELSE {}
    IN  [p \in DOMAIN m._defaultObject \cup (DOMAIN raw \cap declared) \cup extras |->
            IF p \in DOMAIN raw
            THEN IF p \in declared THEN Coerce(m._scheme[p].parse, raw[p]) ELSE raw[p]
            ELSE m._defaultObject[p]]

\* C2: every document of an insert that passes validation reaches the store as
\* the default template with declared raw keys coerced, undeclared raw keys
\* dropped (strict) or kept (allowExtraProperties), and absent declared
\* properties holding their default value; strictness follows the options.
C2_InsertNormalization ==
    /\ (last.op = "insert" /\ last.error # NotNullConstraintError) =>
          LET m == models[last.name]
              docs == last.arg.docs
          IN  last.calls = <<Call("_insert",
                  [i \in 1..Len(docs) |-> TemplateDoc(m, docs[i], m._nonStrict = True)])>>
    /\ (last.op = "define" /\ last.error = NoError) =>
          (models[last.name]._nonStrict = True <=> DeclaredNonStrict(last.arg.options))

\* C3: a single-document update throws NotNullConstraintError exactly when
\* insert of the same document would, and otherwise forwards the document
\* insert would produce, with meta and $loki taken from the raw input.
C3_UpdateLikeInsert ==
    (last.op = "update" /\ ~last.arg.array) =>
        LET m == models[last.name]
            raw == last.arg.docs[1]
            expected == ("meta" :> Get(raw, "meta")) @@ ("$loki" :> Get(raw, "$loki"))
                          @@ InsertDoc(m, raw)
        IN  /\ last.error = NotNullConstraintError <=> InsertFails(m, raw)
            /\ last.error # NotNullConstraintError =>
                  last.calls = <<Call("_update", Single(expected))>>

\* C4: define under a name whose earlier define succeeded throws
\* RedefinitionError and changes neither the registry nor the collections
\* (handle, interceptors, retained primitives, stored documents).
C4_RedefinitionFails ==
    [][(last'.op = "define" /\ Succeeded(last'.name)) =>
          /\ last'.error = RedefinitionError
          /\ models' = models
          /\ collections' = collections
      ]_vars

\* a second define on a model that already holds documents
C4_Witness ==
    /\ last.op = "define"
    /\ last.error = RedefinitionError
    /\ Succeeded(last.name)
    /\ models[last.name]._collection = CollectionRef(last.name)
    /\ Len(collections[last.name].data) > 0

\* C5: a define call that fails registers nothing: the registry holds an entry
\* for a name only once a define call for that name has completed, and lookup
\* then returns the write-intercepted handle.
C5_NoPartialRegistration ==
    \A n \in Names : models[n] # Undefined => (Succeeded(n) /\ getModel(n) = CollectionRef(n))

\* C6 as stated: a declaration with meta or $loki always fails with
\* ReservedFieldError, in every registry state, and no collection is touched.
C6_ReservedAlways ==
    [][(last'.op = "define" /\ ReservedIn(last'.arg.definition)) =>
          /\ last'.error = ReservedFieldError
          /\ collections' = collections
      ]_vars

\* C6 amended: such a define always fails and leaves the collections alone; the
\* error is ReservedFieldError when the registry has no entry under the name
\* and RedefinitionError when it has one.
C6_ReservedUnlessRegistered ==
    [][(last'.op = "define" /\ ReservedIn(last'.arg.definition)) =>
          /\ last'.error = IF models[last'.name] # Undefined
                           THEN RedefinitionError ELSE ReservedFieldError
          /\ collections' = collections
      ]_vars

\* a declaration of $loki was refused while no collection existed
C6_Witness ==
    /\ last.op = "define"
    /\ last.error = ReservedFieldError
    /\ \E i \in 1..Len(last.arg.definition) : last.arg.definition[i].prop = "$loki"
    /\ collections[last.name] = Undefined

\* C7 as stated: an update called with an array forwards the array to the
\* original update as given and the call never throws NotNullConstraintError.
C7_BulkUpdateBypass ==
    (last.op = "update" /\ last.arg.array) =>
        /\ last.calls # <<>>
        /\ last.calls[1] = Call("_update", last.arg)
        /\ last.error # NotNullConstraintError

\* an element of the array fails the validation of a single-document update
ElementFails(m, raw) == NotNullViolated(m, AssignProps(m, EmptyObject, raw))

\* C7 amended: the interceptor forwards the array to the original update as
\* given, as the first and only array it hands to the store, without
\* validating it first; the call throws NotNullConstraintError only after
\* that forward, and only for an element that fails single-document validation.
C7_BulkForwardedAsGiven ==
    (last.op = "update" /\ last.arg.array) =>
        /\ last.calls # <<>>
        /\ last.calls[1] = Call("_update", last.arg)
        /\ \A i \in 2..Len(last.calls) : ~last.calls[i].arg.array
        /\ last.error = NotNullConstraintError =>
              \E i \in 1..Len(last.arg.docs) :
                  ElementFails(models[last.name], last.arg.docs[i])

\* an array holding null for a property declared allowNull: false was forwarded
\* as given, and the call then threw the not-null error from inside the store
C7_Witness ==
    /\ last.op = "update"
    /\ last.arg.array
    /\ models[last.name]._scheme["age"].notNull
    /\ Get(last.arg.docs[1], "age") = Null
    /\ last.calls = <<Call("_update", last.arg)>>
    /\ last.error = NotNullConstraintError

\* C8: after a successful define the collection's uniqueNames are exactly the
\* declared properties with unique: true, whether the collection was created
\* by the call or existed before.
C8_UniqueNamesConfigured ==
    (last.op = "define" /\ last.error = NoError) =>
        LET c == collections[last.name]
        IN  {c.uniqueNames[i] : i \in 1..Len(c.uniqueNames)} = UniqueIn(last.arg.definition)

\* define reused a collection that had been created with other unique options
C8_Witness ==
    /\ last.op = "define"
    /\ last.error = NoError
    /\ OptionUnique(collections[last.name].options) = <<"tag">>
    /\ UniqueIn(last.arg.definition) = {}

\* C9: every built-in coercion except DATE is idempotent on null, undefined
\* and primitive values: a second application returns the value of the first.
C9_CoercionIdempotent ==
    (ctype # "DATE" /\ capplied >= 2) => cval = cprev

\* a string that does not parse as a number went through INTEGER twice
C9_Witness ==
    /\ ctype = "INTEGER"
    /\ capplied = MaxApply
    /\ cval = NaN

\* C10: after any history of define, insert and single-document update calls,
\* every stored document holds a value other than null and undefined for each
\* property declared allowNull: false.
C10_NotNullStored ==
    \A n \in Names : Succeeded(n) =>
        \A i \in 1..Len(collections[n].data) :
            \A p \in DOMAIN models[n]._scheme :
                models[n]._scheme[p].notNull =>
                    ~IsNullish(Get(collections[n].data[i], p))

\* a single-document update went through on a model with a not-null property,
\* after an insert had stored the document
C10_Witness ==
    /\ last.op = "update"
    /\ last.error = NoError
    /\ \E p \in DOMAIN models[last.name]._scheme : models[last.name]._scheme[p].notNull
    /\ Len(collections[last.name].data) = MaxDocs

====
